---- MODULE Spec2Model ----
(***************************************************************************)
(* Model of Cronograma.py: the category partitioner (filter_cobertura),    *)
(* the fetcher (download_image), the acquisition scheduler                 *)
(* (download_images) and the report assembler (extract_report_data).       *)
(*                                                                         *)
(* Python strings are sequences of one-character strings, bytes are        *)
(* sequences of integers 0..255, None is the value None below.             *)
(***************************************************************************)
EXTENDS Integers, Sequences, FiniteSets, TLC

VARIABLES
    master,         \* rows of the 'Export' sheet of the input workbook
    sheets,         \* result of filter_cobertura: ordered <<cobertura, rows>>
    sheet,          \* rows of the category sheet being processed
    pc,             \* position of main / download_images
    download_tasks, \* list of (url, row, col)
    futures,        \* per task: state of the worker running download_image
    collected,      \* tasks already yielded by as_completed
    completed,      \* download_images: completed
    successful,     \* download_images: successful
    images_base64,  \* download_images: key -> base64 text
    downloads,      \* files of DOWNLOAD_DIR: name -> bytes
    report_data,    \* result of extract_report_data
    cat,            \* main: position of the loop over sheets.items()
    processed,      \* files of PROCESSED_DIR: name -> bytes
    dirs,           \* the temporary directories that exist
    output_files,   \* main: output_files
    embedded,       \* images added to the sheet: <<anchor, bytes>>
    xlsx_files,     \* spreadsheets written: name -> [rows, images]
    html_files,     \* reports written: name -> report data
    acquisitions,   \* number of calls of download_images
    pools,          \* number of ThreadPoolExecutor objects created
    sleeps,         \* the values of len(output_files) at each time.sleep
    add_images_errors \* the paths add_images logged an error for

mainvars == <<cat, processed, dirs, output_files, embedded, xlsx_files,
              html_files, acquisitions, pools, sleeps, add_images_errors>>

vars == <<master, sheets, sheet, pc, download_tasks, futures, collected,
          completed, successful, images_base64, downloads, report_data,
          mainvars>>

-----------------------------------------------------------------------------
(* Bounds of the model *)

MaxMasterRows == 3
MaxDataRows == 2
MaxTasks == 2
CpuCount == 1
MaxExtraTasks == 1

-----------------------------------------------------------------------------
(* Python values *)

None == <<"None">>

\* truth value of a cell value: None and '' are falsy
Truthy(v) == v # None /\ v # <<>>

\* isinstance(value, str), over the values of the model (None or str)
IsStr(v) == v # None

\* s.startswith(p)
StartsWith(s, p) == Len(s) >= Len(p) /\ SubSeq(s, 1, Len(p)) = p

Digit(d) == <<"0", "1", "2", "3", "4", "5", "6", "7", "8", "9">>[d + 1]

\* str(n) for n >= 0, as an f-string formats an int
RECURSIVE FormatInt(_)
FormatInt(n) ==
    IF n < 10 THEN <<Digit(n)>> ELSE FormatInt(n \div 10) \o <<Digit(n % 10)>>

\* s.split(sep) for a one-character separator
RECURSIVE Split(_, _)
Split(s, sep) ==
    IF \A i \in 1..Len(s) : s[i] # sep
    THEN <<s>>
    ELSE LET i == CHOOSE k \in 1..Len(s) :
                      s[k] = sep /\ \A j \in 1..(k - 1) : s[j] # sep
         IN <<SubSeq(s, 1, i - 1)>> \o Split(SubSeq(s, i + 1, Len(s)), sep)

B64Alphabet ==
    <<"A", "B", "C", "D", "E", "F", "G", "H", "I", "J", "K", "L", "M",
      "N", "O", "P", "Q", "R", "S", "T", "U", "V", "W", "X", "Y", "Z",
      "a", "b", "c", "d", "e", "f", "g", "h", "i", "j", "k", "l", "m",
      "n", "o", "p", "q", "r", "s", "t", "u", "v", "w", "x", "y", "z",
      "0", "1", "2", "3", "4", "5", "6", "7", "8", "9", "+", "/">>

B64Char(n) == B64Alphabet[n + 1]

\* base64.b64encode(content).decode('utf-8')
RECURSIVE b64encode(_)
b64encode(b) ==
    IF Len(b) = 0 THEN <<>>
    ELSE IF Len(b) = 1 THEN
        LET n == b[1] * 65536
        IN <<B64Char(n \div 262144), B64Char((n \div 4096) % 64), "=", "=">>
    ELSE IF Len(b) = 2 THEN
        LET n == b[1] * 65536 + b[2] * 256
        IN <<B64Char(n \div 262144), B64Char((n \div 4096) % 64),
             B64Char((n \div 64) % 64), "=">>
    ELSE
        LET n == b[1] * 65536 + b[2] * 256 + b[3]
        IN <<B64Char(n \div 262144), B64Char((n \div 4096) % 64),
             B64Char((n \div 64) % 64), B64Char(n % 64)>>
           \o b64encode(SubSeq(b, 4, Len(b)))

\* a dict as a function: d[k] = v
DictSet(d, k, v) == [x \in DOMAIN d \cup {k} |-> IF x = k THEN v ELSE d[x]]

EmptyDict == [x \in {} |-> None]

-----------------------------------------------------------------------------
(* filter_cobertura *)

\* position of cobertura c in the ordered dict, 0 when absent
SheetIndex(ss, c) ==
    IF \E i \in 1..Len(ss) : ss[i][1] = c
    THEN CHOOSE i \in 1..Len(ss) : ss[i][1] = c
    ELSE 0

\* lines 213-218 without the test of row[1]
FilterStep_skipcheck(ss, header, row) ==
    LET c  == row[2]
        s1 == IF SheetIndex(ss, c) = 0 THEN Append(ss, <<c, <<header>>>>) ELSE ss
        i  == SheetIndex(s1, c)
    IN [s1 EXCEPT ![i] = <<c, Append(s1[i][2], row)>>]

\* one iteration of the loop over the data rows (header already taken)
FilterStep(ss, header, row) ==
    IF Truthy(row[2])
    THEN LET c  == row[2]
             s1 == IF SheetIndex(ss, c) = 0
                   THEN Append(ss, <<c, <<header>>>>)
                   ELSE ss
             i  == SheetIndex(s1, c)
         IN [s1 EXCEPT ![i] = <<c, Append(s1[i][2], row)>>]
    ELSE ss

RECURSIVE FilterRows(_, _, _, _)
FilterRows(ss, header, rows, k) ==
    IF k > Len(rows) THEN ss
    ELSE FilterRows(FilterStep(ss, header, rows[k]), header, rows, k + 1)

\* the same with the header row taken as a row of data
filter_cobertura_withheader(rows) ==
    IF Len(rows) = 0 THEN <<>> ELSE FilterRows(<<>>, rows[1], rows, 1)

\* the first row is the header, the rest are partitioned by row[1]
filter_cobertura(rows) ==
    IF Len(rows) = 0 THEN <<>> ELSE FilterRows(<<>>, rows[1], rows, 2)

-----------------------------------------------------------------------------
(* Sheets of the model *)

NumCols == 30

\* openpyxl get_column_letter
RECURSIVE ColumnLetter(_)
ColumnLetter(n) ==
    LET L == <<"A", "B", "C", "D", "E", "F", "G", "H", "I", "J", "K", "L", "M",
               "N", "O", "P", "Q", "R", "S", "T", "U", "V", "W", "X", "Y", "Z">>
    IN IF n <= 26 THEN <<L[n]>>
       ELSE ColumnLetter((n - 1) \div 26) \o <<L[((n - 1) % 26) + 1]>>

\* the table one column to the left, as for 1-indexed column numbers
COLUMN_MAP_shifted ==
    (<<"2", "4">> :> <<"X">>) @@ (<<"2", "5">> :> <<"Y">>) @@
    (<<"2", "6">> :> <<"Z">>) @@ (<<"2", "7">> :> <<"A", "A">>) @@
    (<<"2", "8">> :> <<"A", "B">>) @@ (<<"2", "9">> :> <<"A", "C">>)

COLUMN_MAP ==
    (<<"2", "4">> :> <<"Y">>) @@ (<<"2", "5">> :> <<"Z">>) @@
    (<<"2", "6">> :> <<"A", "A">>) @@ (<<"2", "7">> :> <<"A", "B">>) @@
    (<<"2", "8">> :> <<"A", "C">>) @@ (<<"2", "9">> :> <<"A", "D">>)

Http == <<"h", "t", "t", "p">>

\* the URL held by the cell in row r, column c (1-indexed): one per cell
UrlOf(r, c) == Http \o <<":">> \o FormatInt(r) \o <<"_">> \o FormatInt(c)

\* ord(ch) for the characters of a URL's path
Ord(ch) ==
    IF ch = "_" THEN 95
    ELSE IF ch = ":" THEN 58
    ELSE 48 + (CHOOSE d \in 0..9 : Digit(d) = ch)

\* the bytes the remote host serves for a URL: its path, so they identify it
ContentOf(url) == [k \in 1..(Len(url) - 5) |-> Ord(url[k + 5])]

DenyList ==
    { <<"C", "o", "n", "c", "a", "-", "1">>,
      <<"T", "o", "t", "a", "l", " ", "H", "o", "r", "a", "s">>,
      <<"R", "e", "c", "o", "r", "r", "i", "d", "o", "s",
        "p", "e", "d", "e", "s", "t", "r", "e", "s">>,
      <<"R", "e", "c", "u", "e", "n", "t", "o", " ", "d", "e", " ",
        "C", "o", "m", "b", "i", "n", "a", "d", "a">> }

\* header of a category sheet: column 3 carries a denylisted name
HeaderRow ==
    [c \in 1..NumCols |->
        IF c = 2 THEN <<"C", "o", "b">>
        ELSE IF c = 3 THEN <<"C", "o", "n", "c", "a", "-", "1">>
        ELSE <<"c">> \o FormatInt(c)]

\* what the cells X..AD (columns 24..30) of the first data row hold
RowPatterns ==
    { (25 :> "url"),
      (25 :> "url") @@ (26 :> "url"),
      (30 :> "url"),
      (24 :> "url") @@ (25 :> "text"),
      (25 :> "text"),
      (24 :> "url") @@ (25 :> "url") }

\* and those of the rows after it: a URL in column Y of every other row
PlainPattern(r) == IF r % 2 = 1 THEN (25 :> "url") ELSE (25 :> "text")

DataRow(r, pat) ==
    [c \in 1..NumCols |->
        IF c = 1 THEN <<"i">> \o FormatInt(r)
        ELSE IF c = 2 THEN <<"A">>
        ELSE IF c = 3 THEN <<"x">>
        ELSE IF c \in DOMAIN pat
             THEN IF pat[c] = "url" THEN UrlOf(r, c) ELSE <<"h", "t", "t">>
             ELSE None]

\* number of URLs a pattern puts in the columns download_images scans
PatternUrls(pat) ==
    Cardinality({c \in DOMAIN pat : pat[c] = "url" /\ c \in 25..30})

RECURSIVE SumUrls(_)
SumUrls(pats) ==
    IF Len(pats) = 0 THEN 0 ELSE PatternUrls(Head(pats)) + SumUrls(Tail(pats))

SheetPatterns ==
    { q \in UNION { [1..n -> RowPatterns \cup {PlainPattern(k + 1) : k \in 2..n}] :
                      n \in 1..MaxDataRows } :
        /\ \A k \in 2..Len(q) : q[k] = PlainPattern(k + 1)
        /\ q[1] \in RowPatterns
        /\ SumUrls(q) <= MaxTasks }

CategorySheets ==
    { <<HeaderRow>> \o [k \in 1..Len(pats) |-> DataRow(k + 1, pats[k])] :
        pats \in SheetPatterns }

-----------------------------------------------------------------------------
(* download_image *)

max_retries == 3

ImagePng == <<"i", "m", "a", "g", "e", "/", "p", "n", "g", ";", "q">>
ImageBare == <<"i", "m", "a", "g", "e", "/">>
TextHtml == <<"t", "e", "x", "t", "/", "h", "t", "m", "l">>

CTypes == {ImagePng, ImageBare, TextHtml}

\* a URL of the host that answers every request with an HTML page
PageUrlOf(r, c) == Http \o <<"s", ":">> \o FormatInt(r) \o <<"_">> \o FormatInt(c)

IsPageUrl(url) == Len(url) > 4 /\ url[5] = "s"

\* a URL of a host that answers at once, with the image or with a page
StaticUrlOf(r, c) ==
    Http \o <<"x", ":">> \o FormatInt(r) \o <<"_">> \o FormatInt(c)

IsStaticUrl(url) == Len(url) > 4 /\ url[5] = "x"

\* what one requests.get call, and the file write after it, can come to;
\* body and write matter only where download_image reads them
Outcomes(url) ==
    IF IsPageUrl(url)
    THEN [kind : {"response"}, ok : {TRUE}, ctype : {TextHtml},
          body : {<<>>}, write : {"ok"}]
    ELSE IF IsStaticUrl(url)
    THEN [kind : {"response"}, ok : {TRUE}, ctype : {ImagePng, TextHtml},
          body : {ContentOf(url)}, write : {"ok"}]
    ELSE
    [kind : {"response"}, ok : {FALSE}, ctype : CTypes,
     body : {<<>>}, write : {"ok"}]
    \cup
    [kind : {"response"}, ok : {TRUE}, ctype : {TextHtml},
     body : {<<>>}, write : {"ok"}]
    \cup
    [kind : {"response"}, ok : {TRUE}, ctype : {ImagePng, ImageBare},
     body : {<<>>, ContentOf(url)}, write : {"ok"}]
    \cup
    [kind : {"response"}, ok : {TRUE}, ctype : {ImagePng, ImageBare},
     body : {ContentOf(url)}, write : {"open_error", "write_error"}]
    \cup
    [kind : {"timeout", "neterror", "unexpected", "escaped"}, ok : {FALSE},
     ctype : {<<>>}, body : {<<>>}, write : {"ok"}]

IsImageType(ctype) == StartsWith(ctype, <<"i", "m", "a", "g", "e", "/">>)

\* content_type.split('/')[-1].split(';')[0], 'jpg' when empty
Extension(ctype) ==
    LET bySlash == Split(ctype, "/")
        ext     == Split(bySlash[Len(bySlash)], ";")[1]
    IN IF ext = <<>> THEN <<"j", "p", "g">> ELSE ext

\* the key without the column
ImageKey_rowonly(row, col) == FormatInt(row)

\* f"{row}_{col}"
ImageKey(row, col) == FormatInt(row) \o <<"_">> \o FormatInt(col)

\* basename of f'{DOWNLOAD_DIR}/{row}_{col}.{extension}'
ImageFile(row, col, ext) == ImageKey(row, col) \o <<".">> \o ext

\* what the history keeps of an outcome
Seen(o) == [kind |-> o.kind, ok |-> o.ok,
            image |-> o.kind = "response" /\ IsImageType(o.ctype),
            write |-> IF o.kind = "response" /\ o.ok /\ IsImageType(o.ctype)
                      THEN o.write ELSE "none"]

NoOutcome == [kind |-> "none", ok |-> FALSE, image |-> FALSE, write |-> "none"]

Pending == [st |-> "pending", attempt |-> 0, requests |-> 0,
            success |-> FALSE, img_base64 |-> None, last |-> NoOutcome]

\* the loop's `continue` with no last attempt
Retry_forever(f, o) == [f EXCEPT !.st = "running", !.last = Seen(o)]

\* the loop's `continue`, or `return False, None` on the last attempt
Retry(f, o) ==
    IF f.attempt = max_retries - 1
    THEN [f EXCEPT !.st = "done", !.requests = @ + 1, !.last = Seen(o)]
    ELSE [f EXCEPT !.st = "running", !.attempt = @ + 1, !.requests = @ + 1,
                   !.last = Seen(o)]

\* return False, None
Fail(f, o) == [f EXCEPT !.st = "done", !.requests = @ + 1, !.last = Seen(o)]

\* return True, img_base64
Succeed(f, o) ==
    [f EXCEPT !.st = "done", !.requests = @ + 1, !.last = Seen(o),
              !.success = TRUE, !.img_base64 = b64encode(o.body)]

\* lines 89-133 with an unexpected error retried like a timeout
AttemptFuture_retryunexpected(f, o) ==
    CASE o.kind = "response" /\ ~o.ok -> Retry(f, o)
      [] o.kind = "response" /\ o.ok /\ ~IsImageType(o.ctype) -> Fail(f, o)
      [] o.kind = "response" /\ o.ok /\ IsImageType(o.ctype) ->
            IF o.write = "ok" THEN Succeed(f, o) ELSE Retry(f, o)
      [] o.kind \in {"timeout", "neterror", "unexpected"} -> Retry(f, o)
      [] o.kind = "escaped" ->
            [f EXCEPT !.st = "raised", !.requests = @ + 1, !.last = Seen(o)]

\* lines 89-133 with a non-image response retried like a bad status
AttemptFuture_retrynotimage(f, o) ==
    CASE o.kind = "response" /\ ~o.ok -> Retry(f, o)
      [] o.kind = "response" /\ o.ok /\ ~IsImageType(o.ctype) -> Retry(f, o)
      [] o.kind = "response" /\ o.ok /\ IsImageType(o.ctype) ->
            IF o.write = "ok" THEN Succeed(f, o) ELSE Fail(f, o)
      [] o.kind \in {"timeout", "neterror"} -> Retry(f, o)
      [] o.kind = "unexpected" -> Fail(f, o)
      [] o.kind = "escaped" ->
            [f EXCEPT !.st = "raised", !.requests = @ + 1, !.last = Seen(o)]

\* one iteration of the loop of download_image: the worker's state after it
AttemptFuture(f, o) ==
    CASE o.kind = "response" /\ ~o.ok -> Retry(f, o)
      [] o.kind = "response" /\ o.ok /\ ~IsImageType(o.ctype) -> Fail(f, o)
      [] o.kind = "response" /\ o.ok /\ IsImageType(o.ctype) ->
            IF o.write = "ok" THEN Succeed(f, o) ELSE Fail(f, o)
      [] o.kind \in {"timeout", "neterror"} -> Retry(f, o)
      [] o.kind = "unexpected" -> Fail(f, o)
      [] o.kind = "escaped" ->
            [f EXCEPT !.st = "raised", !.requests = @ + 1, !.last = Seen(o)]

\* the files of DOWNLOAD_DIR after the iteration: open(path, 'wb+') and write
AttemptFiles(files, row, col, o) ==
    IF o.kind = "response" /\ o.ok /\ IsImageType(o.ctype)
    THEN LET name == ImageFile(row, col, Extension(o.ctype))
         IN CASE o.write = "ok" -> DictSet(files, name, o.body)
              [] o.write = "write_error" -> DictSet(files, name, <<>>)
              [] o.write = "open_error" -> files
    ELSE files

-----------------------------------------------------------------------------
(* download_images *)

Min(a, b) == IF a < b THEN a ELSE b

MAX_WORKERS == Min((CpuCount * 2) + 4, 32)

\* the cell tested for a URL: value and isinstance(value, str) and
\* value.startswith('http')
IsUrl(value) == Truthy(value) /\ IsStr(value) /\ StartsWith(value, Http)

\* the tasks of one row: for col in range(24, 30), row[col] is the cell of
\* the 0-indexed position col, that is column col + 1 of the sheet
RECURSIVE RowTasks(_, _, _)
RowTasks(rows, row_index, col) ==
    IF col >= 30 THEN <<>>
    ELSE LET value == rows[row_index][col + 1]
         IN (IF IsUrl(value) THEN <<<<value, row_index, col>>>> ELSE <<>>)
            \o RowTasks(rows, row_index, col + 1)

\* enumerate(list(sheet.rows)[1:], 2)
RECURSIVE SheetTasks(_, _)
SheetTasks(rows, row_index) ==
    IF row_index > Len(rows) THEN <<>>
    ELSE RowTasks(rows, row_index, 24) \o SheetTasks(rows, row_index + 1)

TaskIds == 1..Len(download_tasks)

\* lines 137-150: the scan, the early return, the submission of every task
Discover ==
    /\ pc = "start"
    /\ LET tasks == SheetTasks(sheet, 2)
       IN /\ download_tasks' = tasks
          /\ futures' = [i \in 1..Len(tasks) |-> Pending]
          /\ pc' = IF Len(tasks) = 0 THEN "returned" ELSE "pool"
    /\ images_base64' = EmptyDict
    /\ completed' = 0
    /\ successful' = 0
    /\ collected' = {}
    /\ acquisitions' = acquisitions + 1
    /\ pools' = IF Len(SheetTasks(sheet, 2)) = 0 THEN pools ELSE pools + 1
    /\ UNCHANGED <<master, sheets, sheet, downloads, report_data, cat,
                   processed, dirs, output_files, embedded, xlsx_files,
                   html_files, sleeps, add_images_errors>>

\* the same with a worker for every task
Start_nolimit(i) ==
    /\ pc = "pool"
    /\ futures[i].st = "pending"
    /\ \A j \in 1..(i - 1) : futures[j].st # "pending"
    /\ futures' = [futures EXCEPT ![i].st = "running"]
    /\ UNCHANGED <<master, sheets, sheet, pc, download_tasks, collected,
                   completed, successful, images_base64, downloads,
                   report_data, mainvars>>

\* a worker of the pool takes task i from the executor's queue: the queue is
\* first in first out and at most MAX_WORKERS workers exist
Start(i) ==
    /\ pc = "pool"
    /\ futures[i].st = "pending"
    /\ \A j \in 1..(i - 1) : futures[j].st # "pending"
    /\ Cardinality({j \in TaskIds : futures[j].st = "running"}) < MAX_WORKERS
    /\ futures' = [futures EXCEPT ![i].st = "running"]
    /\ UNCHANGED <<master, sheets, sheet, pc, download_tasks, collected,
                   completed, successful, images_base64, downloads,
                   report_data, mainvars>>

\* the worker of task i runs one iteration of the loop of download_image
Attempt(i) ==
    /\ pc = "pool"
    /\ futures[i].st = "running"
    /\ \E o \in Outcomes(download_tasks[i][1]) :
         /\ futures' = [futures EXCEPT ![i] = AttemptFuture(@, o)]
         /\ downloads' = AttemptFiles(downloads, download_tasks[i][2],
                                      download_tasks[i][3], o)
    /\ UNCHANGED <<master, sheets, sheet, pc, download_tasks, collected,
                   completed, successful, images_base64, report_data,
                   mainvars>>

\* lines 160-170 with a raising future left uncounted
CollectCounts_abort(f) ==
    IF f.st = "raised" THEN <<completed, successful>>
    ELSE <<completed + 1, IF f.success THEN successful + 1 ELSE successful>>

\* completed and successful after the body of the as_completed loop
CollectCounts(f) ==
    <<completed + 1,
      IF f.st = "done" /\ f.success THEN successful + 1 ELSE successful>>

\* images_base64 after the body of the as_completed loop
CollectStore(f, row, col) ==
    IF f.st = "done" /\ f.success
    THEN DictSet(images_base64, ImageKey(row, col), f.img_base64)
    ELSE images_base64

\* as_completed yields the finished future i: lines 160-170
Collect(i) ==
    /\ pc = "pool"
    /\ i \notin collected
    /\ futures[i].st \in {"done", "raised"}
    /\ collected' = collected \cup {i}
    /\ completed' = CollectCounts(futures[i])[1]
    /\ successful' = CollectCounts(futures[i])[2]
    /\ images_base64' = CollectStore(futures[i], download_tasks[i][2],
                                     download_tasks[i][3])
    /\ UNCHANGED <<master, sheets, sheet, pc, download_tasks, futures,
                   downloads, report_data,
                   mainvars>>

\* every future was yielded and the executor has shut down: line 173
\* the same returning while futures are outstanding
Return_early ==
    /\ pc = "pool"
    /\ pc' = "returned"
    /\ UNCHANGED <<master, sheets, sheet, download_tasks, futures, collected,
                   completed, successful, images_base64, downloads,
                   report_data,
                   mainvars>>

Return ==
    /\ pc = "pool"
    /\ collected = TaskIds
    /\ pc' = "returned"
    /\ UNCHANGED <<master, sheets, sheet, download_tasks, futures, collected,
                   completed, successful, images_base64, downloads,
                   report_data,
                   mainvars>>

-----------------------------------------------------------------------------
(* extract_report_data *)

Columna == <<"C", "o", "l", "u", "m", "n", "a", " ">>

\* lines 256-273 with the image test made before the denylist test
ReportCell_denylast(acc, headers, rows, r, idx, store) ==
    LET header == headers[idx + 1]
        value  == rows[r][idx + 1]
        column == idx + 1
        key    == ImageKey(r, column)
    IN IF idx >= Len(headers) THEN acc
       ELSE IF column \in 24..29 /\ IsUrl(value)
       THEN IF key \in DOMAIN store
            THEN [acc EXCEPT !.images = Append(@,
                      [title |-> header, data |-> store[key],
                       position |-> Columna \o ColumnLetter(column)])]
            ELSE acc
       ELSE IF header \in DenyList THEN acc
       ELSE [acc EXCEPT !.data = DictSet(@, header, value)]

\* the body of `for idx, cell in enumerate(row)`: lines 254-273;
\* cell.column is idx + 1, cell.row is r
ReportCell(acc, headers, rows, r, idx, store) ==
    IF idx >= Len(headers) THEN acc
    ELSE LET header == headers[idx + 1]
             value  == rows[r][idx + 1]
             column == idx + 1
             key    == ImageKey(r, column)
         IN IF header \in DenyList THEN acc
            ELSE IF column \in 24..29 /\ IsUrl(value)
            THEN IF key \in DOMAIN store
                 THEN [acc EXCEPT !.images = Append(@,
                           [title |-> header, data |-> store[key],
                            position |-> Columna \o ColumnLetter(column)])]
                 ELSE acc
            ELSE [acc EXCEPT !.data = DictSet(@, header, value)]

RECURSIVE ReportRow(_, _, _, _, _, _)
ReportRow(acc, headers, rows, r, idx, store) ==
    IF idx >= Len(rows[r]) THEN acc
    ELSE ReportRow(ReportCell(acc, headers, rows, r, idx, store),
                   headers, rows, r, idx + 1, store)

\* the entries of one sheet: `for row in sheet.iter_rows(min_row=2)`
RECURSIVE ReportEntries(_, _, _, _)
ReportEntries(headers, rows, r, store) ==
    IF r > Len(rows) THEN <<>>
    ELSE LET e == ReportRow([data |-> EmptyDict, images |-> <<>>],
                            headers, rows, r, 0, store)
         IN (IF DOMAIN e.data # {} THEN <<e>> ELSE <<>>)
            \o ReportEntries(headers, rows, r + 1, store)

Export == <<"E", "x", "p", "o", "r", "t">>

\* the workbook saved by add_images holds one sheet, 'Export', whose cells
\* are the cells of the category sheet
extract_report_data(rows, store) ==
    [sections |->
        <<[title |-> Export,
           entries |-> ReportEntries(IF Len(rows) > 0 THEN rows[1] ELSE <<>>,
                                     rows, 2, store)]>>]

\* main, line 845: the report of the category from its saved workbook
\* the call with the store consumed as it is read
ExtractReport_consume ==
    /\ pc = "returned"
    /\ report_data' = extract_report_data(sheet, images_base64)
    /\ pc' = "reported"
    /\ images_base64' = EmptyDict
    /\ UNCHANGED <<master, sheets, sheet, download_tasks, futures, collected,
                   completed, successful, downloads, mainvars>>

ExtractReport ==
    /\ pc = "returned"
    /\ report_data' = extract_report_data(sheet, images_base64)
    /\ pc' = "reported"
    /\ UNCHANGED <<master, sheets, sheet, download_tasks, futures, collected,
                   completed, successful, images_base64, downloads,
                   mainvars>>

-----------------------------------------------------------------------------
(* Acquisition and report of one category sheet *)

DOWNLOAD_DIR == <<"d", "o", "w", "n", "l", "o", "a", "d", "s">>
PROCESSED_DIR == <<"p", "r", "o", "c", "e", "s", "s", "e", "d">>
TEMP_IMAGES == <<"t", "e", "m", "p", "_", "i", "m", "a", "g", "e", "s">>

\* the state of main's own variables after setup_folders
MainIdle ==
    /\ cat = 0
    /\ processed = EmptyDict
    /\ dirs = {DOWNLOAD_DIR, PROCESSED_DIR, TEMP_IMAGES}
    /\ output_files = <<>>
    /\ embedded = <<>>
    /\ xlsx_files = EmptyDict
    /\ html_files = EmptyDict
    /\ acquisitions = 0
    /\ pools = 0
    /\ sleeps = <<>>
    /\ add_images_errors = {}

Init ==
    /\ master = <<>>
    /\ sheets = <<>>
    /\ sheet \in CategorySheets
    /\ pc = "start"
    /\ download_tasks = <<>>
    /\ futures = <<>>
    /\ collected = {}
    /\ completed = 0
    /\ successful = 0
    /\ images_base64 = EmptyDict
    /\ downloads = EmptyDict
    /\ report_data = None
    /\ MainIdle

Next ==
    \/ Discover
    \/ \E i \in TaskIds : Start(i)
    \/ \E i \in TaskIds : Attempt(i)
    \/ \E i \in TaskIds : Collect(i)
    \/ Return
    \/ ExtractReport

Spec == Init /\ [][Next]_vars

-----------------------------------------------------------------------------
(* The partitioner alone, over bounded master sheets *)

MasterHeader == <<<<"I", "d">>, <<"C", "o", "b">>>>

MasterRows == { <<id, c>> : id \in {<<"a">>, <<"b">>},
                            c \in {None, <<>>, <<"A">>, <<"B">>} }

MasterSheets ==
    { <<MasterHeader>> \o data :
        data \in UNION { [1..n -> MasterRows] : n \in 0..MaxMasterRows } }

InitFilter ==
    /\ master \in MasterSheets
    /\ sheets = <<>>
    /\ sheet = <<>>
    /\ pc = "filter"
    /\ download_tasks = <<>>
    /\ futures = <<>>
    /\ collected = {}
    /\ completed = 0
    /\ successful = 0
    /\ images_base64 = EmptyDict
    /\ downloads = EmptyDict
    /\ report_data = None
    /\ MainIdle

\* main, line 809
FilterCobertura ==
    /\ pc = "filter"
    /\ sheets' = filter_cobertura(master)
    /\ pc' = "filtered"
    /\ UNCHANGED <<master, sheet, download_tasks, futures, collected,
                   completed, successful, images_base64, downloads,
                   report_data,
                   mainvars>>

NextFilter == FilterCobertura

SpecFilter == InitFilter /\ [][NextFilter]_vars

-----------------------------------------------------------------------------
(* The report assembler alone, over bounded saved sheets and image stores *)

MaxReportRows == 1

DenyName(c) ==
    CASE c = 3 -> <<"C", "o", "n", "c", "a", "-", "1">>
      [] c = 24 -> <<"T", "o", "t", "a", "l", " ", "H", "o", "r", "a", "s">>
      [] c = 25 -> <<"R", "e", "c", "o", "r", "r", "i", "d", "o", "s",
                     "p", "e", "d", "e", "s", "t", "r", "e", "s">>
      [] OTHER -> <<"R", "e", "c", "u", "e", "n", "t", "o", " ", "d", "e", " ",
                    "C", "o", "m", "b", "i", "n", "a", "d", "a">>

\* a header whose columns in D carry denylisted names
ReportHeader(D) ==
    [c \in 1..NumCols |->
        IF c \in D THEN DenyName(c)
        ELSE IF c = 2 THEN <<"C", "o", "b">>
        ELSE <<"c">> \o FormatInt(c)]

CellPatterns == [24..26 -> {"none", "text", "url"}]

ReportSheets ==
    { <<ReportHeader(D)>> \o
      [k \in 1..Len(pats) |->
          DataRow(k + 1, [c \in {x \in 24..26 : pats[k][x] # "none"} |-> pats[k][c]])] :
        D \in SUBSET {3, 24, 25, 26},
        pats \in UNION { [1..n -> CellPatterns] : n \in 1..MaxReportRows } }

\* a store that download_images can return for the sheet: the payloads of
\* any of its tasks
StoresOf(rows) ==
    LET tasks == SheetTasks(rows, 2)
    IN { [key \in { ImageKey(tasks[i][2], tasks[i][3]) : i \in S } |->
            LET i == CHOOSE j \in S : ImageKey(tasks[j][2], tasks[j][3]) = key
            IN b64encode(ContentOf(tasks[i][1]))] :
         S \in SUBSET (1..Len(tasks)) }

InitReport ==
    /\ master = <<>>
    /\ sheets = <<>>
    /\ sheet \in ReportSheets
    /\ pc = "returned"
    /\ download_tasks = SheetTasks(sheet, 2)
    /\ futures = <<>>
    /\ collected = {}
    /\ completed = Len(download_tasks)
    /\ images_base64 \in StoresOf(sheet)
    /\ successful = Cardinality(DOMAIN images_base64)
    /\ downloads = EmptyDict
    /\ report_data = None
    /\ MainIdle

\* a second call of extract_report_data on the same file and store
ExtractAgain ==
    /\ pc = "reported"
    /\ report_data' = extract_report_data(sheet, images_base64)
    /\ pc' = "again"
    /\ UNCHANGED <<master, sheets, sheet, download_tasks, futures, collected,
                   completed, successful, images_base64, downloads,
                   mainvars>>

NextReport ==
    \/ ExtractReport
    \/ ExtractAgain

SpecReport == InitReport /\ [][NextReport]_vars

-----------------------------------------------------------------------------
(* Claims *)

DataRowsOf(rows) == SubSeq(rows, 2, Len(rows))

\* the rows of data whose second column is c, in order
RowsOfCob(data, c) == LET Same(row) == row[2] = c IN SelectSeq(data, Same)

\* C1: filter_cobertura partitions the data rows exactly: the set of category
\* C is the header followed by the data rows whose second column is C, each
\* once and in source order; the categories are the non-empty values of the
\* second column, so a row with an empty or missing category is in no set.
C1_Partition ==
    pc = "filtered" =>
        LET data == DataRowsOf(master)
        IN /\ { sheets[i][1] : i \in 1..Len(sheets) }
                = { data[k][2] : k \in { j \in 1..Len(data) : Truthy(data[j][2]) } }
           /\ \A i, j \in 1..Len(sheets) : sheets[i][1] = sheets[j][1] => i = j
           /\ \A i \in 1..Len(sheets) :
                sheets[i][2] = <<master[1]>> \o RowsOfCob(data, sheets[i][1])

\* a category whose two rows lie on both sides of a dropped row
C1_Witness ==
    /\ pc = "filtered"
    /\ Len(master) = 4
    /\ ~Truthy(master[3][2])
    /\ Len(sheets) = 1
    /\ sheets[1][2] = <<master[1], master[2], master[4]>>

TaskKey(i) == ImageKey(download_tasks[i][2], download_tasks[i][3])

\* the last response of task i was a success status with an image/* type
FetchedImage(i) ==
    /\ futures[i].last.kind = "response"
    /\ futures[i].last.ok
    /\ futures[i].last.image

\* C2: after download_images returns, the key of a task is in the store iff
\* the task's fetch succeeded and validated as an image, and every key of the
\* store is the key of a discovered task.
C2_KeyIffFetched ==
    pc \in {"returned", "reported"} =>
        /\ \A i \in TaskIds : TaskKey(i) \in DOMAIN images_base64 <=> FetchedImage(i)
        /\ DOMAIN images_base64 \subseteq { TaskKey(i) : i \in TaskIds }

\* C3: every value stored in the ImageStore is non-empty base64 text.
C3_NonEmptyPayload ==
    \A k \in DOMAIN images_base64 : Len(images_base64[k]) > 0

ReportEntriesNow == report_data.sections[1].entries

ReportImages(r) == ReportEntriesNow[r - 1].images

\* the Image items of the row of task i that carry the header of the task's
\* own column (col is the 0-indexed position, column col + 1 of the sheet)
ItemsOfTask(i) ==
    LET row == download_tasks[i][2]
        col == download_tasks[i][3]
    IN { k \in 1..Len(ReportImages(row)) :
           ReportImages(row)[k].title = sheet[1][col + 1] }

RECURSIVE CountImages(_)
CountImages(entries) ==
    IF Len(entries) = 0 THEN 0
    ELSE Len(Head(entries).images) + CountImages(Tail(entries))

\* C4: scheduler and assembler agree on the cell a key denotes: a task that
\* succeeded yields exactly one Image item in its row, with the payload of
\* its own URL and the header of its own column; a task that failed yields
\* none; the report holds as many Image items as downloads succeeded.
C4_KeyAgreement ==
    pc = "reported" =>
        /\ \A i \in TaskIds :
             IF futures[i].success
             THEN /\ Cardinality(ItemsOfTask(i)) = 1
                  /\ \A k \in ItemsOfTask(i) :
                       ReportImages(download_tasks[i][2])[k].data
                         = futures[i].img_base64
             ELSE ItemsOfTask(i) = {}
        /\ CountImages(ReportEntriesNow)
             = Cardinality({ i \in TaskIds : futures[i].success })

\* C5: a URL held by a cell of the six image columns (Y..AD, the columns
\* download_images scans and COLUMN_MAP covers) is never a value of the
\* entry's field map.
C5_NoRawUrl ==
    pc = "reported" =>
        \A r \in 2..Len(sheet) : \A c \in 25..30 :
            IsUrl(sheet[r][c]) =>
                \A h \in DOMAIN ReportEntriesNow[r - 1].data :
                    ReportEntriesNow[r - 1].data[h] # sheet[r][c]

\* C6: no denylisted name is a key of a field map or the title of an Image
\* item of any entry of the report.
C6_DenylistExcluded ==
    pc = "reported" =>
        \A s \in 1..Len(report_data.sections) :
            \A e \in 1..Len(report_data.sections[s].entries) :
                LET entry == report_data.sections[s].entries[e]
                IN /\ DOMAIN entry.data \cap DenyList = {}
                   /\ \A k \in 1..Len(entry.images) :
                        entry.images[k].title \notin DenyList

\* a denylisted header over a URL cell whose key is in the store, and a
\* denylisted header over a text cell
C6_Witness ==
    /\ pc = "reported"
    /\ sheet[1][25] \in DenyList
    /\ IsUrl(sheet[2][25])
    /\ ImageKey(2, 25) \in DOMAIN images_base64
    /\ sheet[1][3] \in DenyList
    /\ Len(ReportEntriesNow) >= 1

\* C7 as claimed: a response whose content-type does not begin with image/
\* ends the task in failure, with no further request.
C7_AnyNotImageTerminal ==
    \A i \in TaskIds :
        (futures[i].last.kind = "response" /\ ~futures[i].last.image) =>
            (futures[i].st = "done" /\ ~futures[i].success)

\* C7 as amended: a success-status response whose content-type does not
\* begin with image/ ends the task in failure with no further request, so
\* after exactly one request when it answers the first attempt.
C7_NotImageTerminal ==
    \A i \in TaskIds :
        (futures[i].last.kind = "response" /\ futures[i].last.ok
         /\ ~futures[i].last.image) =>
            /\ futures[i].st = "done"
            /\ ~futures[i].success
            /\ futures[i].requests = futures[i].attempt + 1

\* a text/html answer to the first request: the task has failed after it
C7_Witness ==
    \E i \in TaskIds :
        /\ futures[i].last.kind = "response"
        /\ futures[i].last.ok
        /\ ~futures[i].last.image
        /\ futures[i].requests = 1
        /\ futures[i].st = "done"

Retryable(i) ==
    \/ futures[i].last.kind = "response" /\ ~futures[i].last.ok
    \/ futures[i].last.kind \in {"timeout", "neterror"}

\* C8: at most 3 requests per task; a non-success status, a timeout or a
\* network error on attempt 1 or 2 leads to a further attempt and on attempt
\* 3 to failure; a valid image response on attempt k ends the task with
\* success after exactly k requests.
C8_RetryBudget ==
    \A i \in TaskIds :
        /\ futures[i].requests <= 3
        /\ (Retryable(i) /\ futures[i].requests < 3) =>
              (futures[i].st = "running"
               /\ futures[i].attempt = futures[i].requests)
        /\ (Retryable(i) /\ futures[i].requests = 3) =>
              (futures[i].st = "done" /\ ~futures[i].success)
        /\ FetchedImage(i) =>
              (futures[i].st = "done" /\ futures[i].success
               /\ futures[i].requests = futures[i].attempt + 1)

\* C9: a valid image response whose file write fails still ends the task
\* with success and the base64 payload, and its key is in the returned store.
C9_WriteFailureNotFatal ==
    \A i \in TaskIds :
        (FetchedImage(i) /\ futures[i].last.write \in {"open_error", "write_error"}) =>
            /\ futures[i].st = "done"
            /\ futures[i].success
            /\ futures[i].img_base64 # None
            /\ pc \in {"returned", "reported"} => TaskKey(i) \in DOMAIN images_base64

\* C10: when a task raised, download_images still returns with every task
\* run to completion and counted, the raising task counted as failed, and
\* the key of every successful task stored with its payload.
C10_ExceptionIsolated ==
    (pc \in {"returned", "reported"} /\ \E i \in TaskIds : futures[i].st = "raised") =>
        /\ completed = Len(download_tasks)
        /\ successful = Cardinality({ j \in TaskIds : futures[j].success })
        /\ \A j \in TaskIds :
             /\ futures[j].st \in {"done", "raised"}
             /\ futures[j].st = "raised" => TaskKey(j) \notin DOMAIN images_base64
             /\ futures[j].success =>
                  /\ TaskKey(j) \in DOMAIN images_base64
                  /\ images_base64[TaskKey(j)] = futures[j].img_base64

\* one task raised, its sibling succeeded, and download_images returned
C10_Witness ==
    /\ pc = "returned"
    /\ completed = 2
    /\ \E i, j \in TaskIds :
         /\ futures[i].st = "raised"
         /\ futures[j].success
         /\ TaskKey(j) \in DOMAIN images_base64

-----------------------------------------------------------------------------
(* The worker pool with more tasks than workers *)

\* a sheet with n page URLs, six to a row from row 2 on, in columns Y..AD
PoolSheet(n) ==
    <<HeaderRow>> \o
    [k \in 1..((n + 5) \div 6) |->
        [c \in 1..NumCols |->
            IF c = 1 THEN <<"i">> \o FormatInt(k + 1)
            ELSE IF c = 2 THEN <<"A">>
            ELSE IF c \in 25..30 /\ (k - 1) * 6 + (c - 24) <= n
                 THEN PageUrlOf(k + 1, c)
                 ELSE None]]

InitPool ==
    /\ master = <<>>
    /\ sheets = <<>>
    /\ sheet \in { PoolSheet(n) : n \in 1..(MAX_WORKERS + MaxExtraTasks) }
    /\ pc = "start"
    /\ download_tasks = <<>>
    /\ futures = <<>>
    /\ collected = {}
    /\ completed = 0
    /\ successful = 0
    /\ images_base64 = EmptyDict
    /\ downloads = EmptyDict
    /\ report_data = None
    /\ MainIdle

NextPool ==
    \/ Discover
    \/ \E i \in TaskIds : Start(i)
    \/ \E i \in TaskIds : Attempt(i)
    \/ \E i \in TaskIds : Collect(i)
    \/ Return

SpecPool == InitPool /\ [][NextPool]_vars

Running == { i \in TaskIds : futures[i].st = "running" }

\* C18: the returned store is a function of the tasks' results alone: the
\* keys of distinct tasks differ, the store changes only when the collector
\* takes a future, which adds the one key of that task, never a key already
\* there, and every file of the download directory belongs to one task.
C18_OrderIndependent ==
    /\ [](/\ \A i, j \in TaskIds : TaskKey(i) = TaskKey(j) => i = j
          /\ \A n \in DOMAIN downloads :
               Cardinality({ i \in TaskIds : TaskKey(i) = Split(n, ".")[1] }) = 1
          /\ pc \in {"returned", "reported"} =>
               /\ DOMAIN images_base64
                    = { TaskKey(i) : i \in { j \in TaskIds : futures[j].success } }
               /\ \A i \in TaskIds : futures[i].success =>
                    images_base64[TaskKey(i)] = futures[i].img_base64)
    /\ [][images_base64' # images_base64 =>
            \E i \in TaskIds :
                /\ i \notin collected
                /\ collected' = collected \cup {i}
                /\ TaskKey(i) \notin DOMAIN images_base64
                /\ DOMAIN images_base64' = DOMAIN images_base64 \cup {TaskKey(i)}
                /\ \A k \in DOMAIN images_base64 :
                     images_base64'[k] = images_base64[k]]_vars

\* two tasks of one row both succeeded and were collected
C18_Witness ==
    /\ pc = "returned"
    /\ \E i, j \in TaskIds :
         /\ i # j
         /\ download_tasks[i][2] = download_tasks[j][2]
         /\ futures[i].success /\ futures[j].success
         /\ {TaskKey(i), TaskKey(j)} \subseteq DOMAIN images_base64
    /\ Cardinality(DOMAIN downloads) = 2

C20_UnexpectedTerminal ==
    \A i \in TaskIds :
        (\/ futures[i].last.kind = "unexpected"
         \/ futures[i].last.write \in {"open_error", "write_error"}) =>
            /\ futures[i].st = "done"
            /\ ~futures[i].success
            /\ futures[i].requests = futures[i].attempt + 1

\* an unexpected error on the second attempt
C20_Witness ==
    \E i \in TaskIds :
        /\ futures[i].last.kind = "unexpected"
        /\ futures[i].requests = 2
        /\ futures[i].st = "done"

-----------------------------------------------------------------------------
(* main: every category in turn, then the reports and the cleanup *)

MaxMainRows == 2

Restrict(d, K) == [k \in K |-> d[k]]

\* row m of the master sheet: category cob, with a URL in column url
\* (25 is Y, 30 is AD) or, for 0, in no column
MainRow(m, cob, url) ==
    [c \in 1..NumCols |->
        IF c = 1 THEN <<"i">> \o FormatInt(m)
        ELSE IF c = 2 THEN cob
        ELSE IF c = url THEN StaticUrlOf(m, c)
        ELSE None]

MainMasters ==
    UNION { { <<HeaderRow>> \o
                [k \in 1..n |-> MainRow(k + 1, f[k].cob, f[k].url)] :
                f \in [1..n -> [cob : {<<"A">>, <<"B">>}, url : {0, 25, 30}]] } :
            n \in 0..MaxMainRows }

\* PIL resize((300, 300)) and save
Resize(content) == <<300, 300>> \o content

\* os.path.basename(path).split('.')[0].split('_')
filename_parts(name) == Split(Split(name, ".")[1], "_")

\* the files add_images places on the sheet
Placed(files) ==
    { n \in DOMAIN files :
        /\ Len(filename_parts(n)) = 2
        /\ filename_parts(n)[2] \in DOMAIN COLUMN_MAP }

\* the files whose placing raises, which the except clause logs
Raising(files) ==
    { n \in DOMAIN files :
        /\ Len(filename_parts(n)) = 2
        /\ filename_parts(n)[2] \notin DOMAIN COLUMN_MAP }

\* f'{COLUMN_MAP[col]}{row}'
Anchor(name) == COLUMN_MAP[filename_parts(name)[2]] \o filename_parts(name)[1]

\* the name every category's spreadsheet gets when the category is left out
XlsxName_fixed(cobertura) == <<".", "x", "l", "s", "x">>

\* f'{cobertura}.xlsx'
XlsxName(cobertura) == cobertura \o <<".", "x", "l", "s", "x">>

\* f'informe_{cobertura}.html'
HtmlName(cobertura) ==
    <<"i", "n", "f", "o", "r", "m", "e", "_">> \o cobertura
        \o <<".", "h", "t", "m", "l">>

\* min(5 * 1.5 ** (n - 1), 12) in hundredths of a second, before the jitter
WaitTime(n) == Min((500 * (3 ^ (n - 1))) \div (2 ^ (n - 1)), 1200)

InitMain ==
    /\ master \in MainMasters
    /\ sheets = <<>>
    /\ sheet = <<>>
    /\ pc = "filter"
    /\ download_tasks = <<>>
    /\ futures = <<>>
    /\ collected = {}
    /\ completed = 0
    /\ successful = 0
    /\ images_base64 = EmptyDict
    /\ downloads = EmptyDict
    /\ report_data = None
    /\ MainIdle

\* the head of the loop over the categories: both empty_folder calls, where
\* os.remove can fail for any file and the file then stays
BeginCategory ==
    /\ pc \in {"filtered", "slept"}
    /\ cat < Len(sheets)
    /\ cat' = cat + 1
    /\ sheet' = sheets[cat + 1][2]
    /\ \E kept \in SUBSET DOMAIN downloads :
         downloads' = Restrict(downloads, kept)
    /\ \E kept \in SUBSET DOMAIN processed :
         processed' = Restrict(processed, kept)
    /\ pc' = "start"
    /\ UNCHANGED <<master, sheets, download_tasks, futures, collected,
                   completed, successful, images_base64, report_data, dirs,
                   output_files, embedded, xlsx_files, html_files,
                   acquisitions, pools, sleeps, add_images_errors>>

\* process_images: a file PIL cannot open or save is logged and left out;
\* an empty file is never an image
ProcessImages ==
    /\ pc = "returned"
    /\ \E bad \in SUBSET DOMAIN downloads :
         /\ \A n \in DOMAIN downloads : downloads[n] = <<>> => n \in bad
         /\ processed' =
              [n \in DOMAIN processed \cup (DOMAIN downloads \ bad) |->
                  IF n \in DOMAIN downloads \ bad
                  THEN Resize(downloads[n]) ELSE processed[n]]
    /\ pc' = "resized"
    /\ UNCHANGED <<master, sheets, sheet, download_tasks, futures, collected,
                   completed, successful, images_base64, downloads,
                   report_data, cat, dirs, output_files, embedded,
                   xlsx_files, html_files, acquisitions, pools, sleeps,
                   add_images_errors>>

\* add_images, the save of the workbook and output_files.append
AddImages ==
    /\ pc = "resized"
    /\ LET images == { [anchor |-> Anchor(n), data |-> processed[n]] :
                         n \in Placed(processed) }
           name   == XlsxName(sheets[cat][1])
       IN /\ embedded' = Append(embedded, images)
          /\ xlsx_files' =
               DictSet(xlsx_files, name, [rows |-> sheet, images |-> images])
          /\ output_files' =
               Append(output_files, <<name, sheets[cat][1], images_base64>>)
    /\ add_images_errors' =
         add_images_errors \cup { <<cat, n>> : n \in Raising(processed) }
    /\ pc' = "added"
    /\ UNCHANGED <<master, sheets, sheet, download_tasks, futures, collected,
                   completed, successful, images_base64, downloads,
                   report_data, cat, processed, dirs, html_files,
                   acquisitions, pools, sleeps>>

\* the wait at the end of the loop body
Throttle ==
    /\ pc = "added"
    /\ sleeps' = IF Len(sheets) > 1
                 THEN Append(sleeps, WaitTime(Len(output_files)))
                 ELSE sleeps
    /\ pc' = "slept"
    /\ UNCHANGED <<master, sheets, sheet, download_tasks, futures, collected,
                   completed, successful, images_base64, downloads,
                   report_data, cat, processed, dirs, output_files, embedded,
                   xlsx_files, html_files, acquisitions, pools, add_images_errors>>

\* the HTML files after the reports of output_files[k..] are written
RECURSIVE RenderFrom(_, _)
RenderFrom(files, k) ==
    IF k > Len(output_files) THEN files
    ELSE LET out  == output_files[k]
             data == extract_report_data(xlsx_files[out[1]].rows, out[3])
         IN RenderFrom(DictSet(files, HtmlName(out[2]), data), k + 1)

\* the loop over output_files once every category is done
GenerateReports ==
    /\ pc \in {"filtered", "slept"}
    /\ cat = Len(sheets)
    /\ html_files' = RenderFrom(html_files, 1)
    /\ pc' = "rendered"
    /\ UNCHANGED <<master, sheets, sheet, download_tasks, futures, collected,
                   completed, successful, images_base64, downloads,
                   report_data, cat, processed, dirs, output_files, embedded,
                   xlsx_files, acquisitions, pools, sleeps, add_images_errors>>

\* clean_temp_files: nothing at all when the folders hold no file; else the
\* files are removed, any of which can fail, and each folder that came out
\* empty is removed
CleanTempFiles ==
    /\ pc = "rendered"
    /\ IF Cardinality(DOMAIN downloads) + Cardinality(DOMAIN processed) = 0
       THEN UNCHANGED <<downloads, processed, dirs>>
       ELSE \E keptD \in SUBSET DOMAIN downloads,
               keptP \in SUBSET DOMAIN processed :
              /\ downloads' = Restrict(downloads, keptD)
              /\ processed' = Restrict(processed, keptP)
              /\ dirs' = { d \in dirs :
                             \/ d = DOWNLOAD_DIR /\ keptD # {}
                             \/ d = PROCESSED_DIR /\ keptP # {} }
    /\ pc' = "done"
    /\ UNCHANGED <<master, sheets, sheet, download_tasks, futures, collected,
                   completed, successful, images_base64, report_data, cat,
                   output_files, embedded, xlsx_files, html_files,
                   acquisitions, pools, sleeps, add_images_errors>>

NextMain ==
    \/ FilterCobertura
    \/ BeginCategory
    \/ Discover
    \/ \E i \in TaskIds : Start(i)
    \/ \E i \in TaskIds : Attempt(i)
    \/ \E i \in TaskIds : Collect(i)
    \/ Return
    \/ ProcessImages
    \/ AddImages
    \/ Throttle
    \/ GenerateReports
    \/ CleanTempFiles

SpecMain == InitMain /\ [][NextMain]_vars

\* C11: once download_images has returned, and so while process_images,
\* add_images and extract_report_data run, every task of the category has
\* completed and has been collected: no fetch is pending or running.
C11_PoolDrained ==
    pc \in {"returned", "resized", "added", "slept", "rendered", "done"} =>
        /\ \A i \in TaskIds : futures[i].st \in {"done", "raised"}
        /\ collected = TaskIds
        /\ completed = Len(download_tasks)

\* process_images has run on a category of two tasks
C11_Witness ==
    /\ pc = "resized"
    /\ Len(download_tasks) >= 2
    /\ successful >= 1

\* the resized bytes of the images category k can fetch
OwnImages(k) ==
    { Resize(ContentOf(t[1])) : t \in { SheetTasks(sheets[k][2], 2)[i] :
                                  i \in 1..Len(SheetTasks(sheets[k][2], 2)) } }

\* C12: when the acquisition of a later category begins both working
\* directories are empty, and every image embedded into a category's
\* spreadsheet was fetched from a URL of that category's own sheet.
C12_LeakFree ==
    /\ pc = "start" /\ cat > 1 =>
         downloads = EmptyDict /\ processed = EmptyDict
    /\ \A k \in 1..Len(embedded) :
         \A img \in embedded[k] : img.data \in OwnImages(k)

\* C13: when the run is over the download directory, the processed directory
\* and the scratch image directory are gone.
C13_TempDirsRemoved ==
    pc = "done" => dirs \cap {DOWNLOAD_DIR, PROCESSED_DIR, TEMP_IMAGES} = {}

C15_HeaderOnly ==
    Len(master) = 1 =>
        /\ sheets = <<>>
        /\ acquisitions = 0
        /\ pools = 0
        /\ embedded = <<>>
        /\ sleeps = <<>>
        /\ output_files = <<>>
        /\ xlsx_files = EmptyDict
        /\ html_files = EmptyDict

\* the run on a master sheet of the header alone has completed
C15_Witness ==
    /\ pc = "done"
    /\ Len(master) = 1

-----------------------------------------------------------------------------
(* add_images on a processed directory of any content *)

\* names a processed directory can hold: two placeable ones, two with a
\* column outside COLUMN_MAP, three not of the form row_col
EmbedNames ==
    << <<"2", "_", "2", "4", ".", "p", "n", "g">>,
      <<"2", "_", "2", "9", ".", "j", "p", "g">>,
      <<"2", "_", "3", "0", ".", "p", "n", "g">>,
      <<"2", "_", "9", ".", "p", "n", "g">>,
      <<"2", "_", "2", "4", "_", "1", ".", "p", "n", "g">>,
      <<"n", "o", "t", "e", "s", ".", "p", "n", "g">>,
      <<"T", "h", "u", "m", "b", "s", ".", "d", "b">> >>

InitEmbed ==
    /\ master = <<>>
    /\ sheet = <<HeaderRow, MainRow(2, <<"A">>, 25)>>
    /\ sheets = << <<(<<"A">>), sheet>> >>
    /\ pc = "resized"
    /\ download_tasks = <<>>
    /\ futures = <<>>
    /\ collected = {}
    /\ completed = 0
    /\ successful = 0
    /\ images_base64 = EmptyDict
    /\ downloads = EmptyDict
    /\ report_data = None
    /\ cat = 1
    /\ \E ks \in SUBSET (1..Len(EmbedNames)) :
         processed = [n \in { EmbedNames[k] : k \in ks } |->
                         Resize(<<CHOOSE k \in ks : EmbedNames[k] = n>>)]
    /\ dirs = {DOWNLOAD_DIR, PROCESSED_DIR, TEMP_IMAGES}
    /\ output_files = <<>>
    /\ embedded = <<>>
    /\ xlsx_files = EmptyDict
    /\ html_files = EmptyDict
    /\ acquisitions = 1
    /\ pools = 0
    /\ sleeps = <<>>
    /\ add_images_errors = {}

NextEmbed == AddImages

SpecEmbed == InitEmbed /\ [][NextEmbed]_vars

\* a name of exactly two parts whose second is a column of COLUMN_MAP
WellFormed(n) ==
    LET stem == Split(Split(n, ".")[1], "_")
    IN Len(stem) = 2 /\ stem[2] \in {FormatInt(c) : c \in 24..29}

\* C17: after add_images every well-formed file is on the sheet, every other
\* file is left out with an error logged for it, and the sheet is written.
C17_BadFileSkippedAndLogged ==
    pc = "added" =>
        /\ XlsxName(sheets[cat][1]) \in DOMAIN xlsx_files
        /\ \A n \in DOMAIN processed :
             IF WellFormed(n)
             THEN \E img \in embedded[cat] : img.data = processed[n]
             ELSE /\ \A img \in embedded[cat] : img.data # processed[n]
                  /\ <<cat, n>> \in add_images_errors

-----------------------------------------------------------------------------
(* Claims about the run as a whole *)

\* the categories that have entries in a store now: those kept in
\* output_files and the one download_images is filling or has just returned
LiveStores ==
    { k \in 1..Len(output_files) : output_files[k][3] # EmptyDict }
    \cup (IF pc \in {"pool", "returned", "resized"} /\ images_base64 # EmptyDict
          THEN {cat} ELSE {})

\* C21: store entries of two categories never exist together, and when the
\* acquisition of a category begins the report of every earlier category
\* has been written and its store is empty.
C21_StoreLifecycle ==
    /\ Cardinality(LiveStores) <= 1
    /\ pc \in {"start", "pool"} =>
         \A k \in 1..(cat - 1) :
            /\ HtmlName(sheets[k][1]) \in DOMAIN html_files
            /\ output_files[k][3] = EmptyDict

\* C22: over a whole run at most one worker pool is created.
C22_OnePool == pools <= 1

\* C23: a wait happens only between two categories: never more waits than
\* categories begun less one, and in a run of n categories that is over
\* exactly n - 1 of them, none for n = 1.
C23_DelaysBetween ==
    /\ Len(sleeps) <= (IF cat = 0 THEN 0 ELSE cat - 1)
    /\ pc \in {"rendered", "done"} =>
         Len(sleeps) = (IF Len(sheets) = 0 THEN 0 ELSE Len(sheets) - 1)

\* the tasks download_images finds on the sheet of category j
TasksOf(j) ==
    { SheetTasks(sheets[j][2], 2)[i] :
        i \in 1..Len(SheetTasks(sheets[j][2], 2)) }

KeyAnchor(key) == COLUMN_MAP[Split(key, "_")[2]] \o Split(key, "_")[1]

\* C25: for every category the cells that got an image on the spreadsheet
\* are the cells of the keys of the category's store.
C25_SameImages ==
    \A k \in 1..Len(embedded) :
        { img.anchor : img \in embedded[k] }
            = { KeyAnchor(key) : key \in DOMAIN output_files[k][3] }

-----------------------------------------------------------------------------
(* download_images with workers and collector that keep running *)

MaxLiveTasks == 2

\* a sheet of one row of data with URLs in its first n image columns: two
\* of a host that can answer in any way, the others of a host serving pages
LiveSheet(n) ==
    <<HeaderRow,
      [c \in 1..NumCols |->
          IF c = 1 THEN <<"i", "2">>
          ELSE IF c = 2 THEN <<"A">>
          ELSE IF c \in 25..(24 + n)
               THEN IF c <= 26 THEN UrlOf(2, c) ELSE PageUrlOf(2, c)
          ELSE None]>>

InitLive ==
    /\ master = <<>>
    /\ sheets = <<>>
    /\ sheet \in { LiveSheet(n) : n \in 0..MaxLiveTasks }
    /\ pc = "start"
    /\ download_tasks = <<>>
    /\ futures = <<>>
    /\ collected = {}
    /\ completed = 0
    /\ successful = 0
    /\ images_base64 = EmptyDict
    /\ downloads = EmptyDict
    /\ report_data = None
    /\ MainIdle

NextLive ==
    \/ Discover
    \/ \E i \in TaskIds : Start(i)
    \/ \E i \in TaskIds : Attempt(i)
    \/ \E i \in TaskIds : Collect(i)
    \/ Return

\* the calling thread runs, every worker thread runs, and every request
\* returns or times out
Fairness ==
    /\ WF_vars(Discover)
    /\ WF_vars(Return)
    /\ \A i \in 1..MaxLiveTasks :
         /\ WF_vars(i \in TaskIds /\ Start(i))
         /\ WF_vars(i \in TaskIds /\ Attempt(i))
         /\ WF_vars(i \in TaskIds /\ Collect(i))

SpecLive == InitLive /\ [][NextLive]_vars /\ Fairness

\* C26: no task ever makes more than 3 requests, and in the end every task
\* has come to success or failure and download_images has returned.
C26_Terminates ==
    /\ [](\A i \in TaskIds : futures[i].requests <= 3)
    /\ <>(/\ pc = "returned"
          /\ \A i \in TaskIds : futures[i].st \in {"done", "raised"})

\* download_images has returned after a task used its three requests
C26_Witness ==
    /\ pc = "returned"
    /\ \E i \in TaskIds : futures[i].requests = 3 /\ futures[i].st = "done"

====
